---- MODULE Spec2Model ----
(***************************************************************************)
(* A model of the redisutil package: the Node / Nodes topology model, the  *)
(* decoders of CLUSTER NODES and CLUSTER INFO text, and the Admin          *)
(* configuration fan-out.                                                  *)
(*                                                                         *)
(* Go strings are TLA+ strings; a byte of a string s is SubSeq(s, i, i).   *)
(* Go slices are sequences (1-based here, 0-based in the source), Go maps  *)
(* are functions over the set of their keys.                               *)
(***************************************************************************)
EXTENDS Integers, Sequences, FiniteSets, TLC

VARIABLES
    nodes,      \* the receiver of the Nodes method calls (a Nodes slice)
    before,     \* the receiver as it was when the last call started
    call,       \* the last Nodes method call: [op, arg]
    res,        \* what that call returned: [nodes, node, n, err]
    infoInput,  \* the CLUSTER INFO text handed to DecodeClusterInfos
    infoPc,     \* "input" before DecodeClusterInfos has run, "decoded" after
    clusterInfo, \* the map DecodeClusterInfos returned
    newConfig,  \* the settings map handed to the config fan-out
    memberRole, \* the cluster's members and the role of each
    cfgApi,     \* the fan-out method called, "idle" before the call
    worker,     \* per member: the goroutine running the callback on it
    sent,       \* per member and key: the ConfigSet calls issued, in order
    errCh,      \* the fan-out's error channel (capacity 1)
    cfgResult,  \* "pending", or what the fan-out returned to its caller
    rawNodes,   \* the CLUSTER NODES text handed to DecodeNodeInfos
    decodePc,   \* "input" before DecodeNodeInfos has run, "decoded" after
    decoded,    \* the Nodes DecodeNodeInfos returned
    theNode,    \* the receiver of the Node method calls (a Node)
    nodeBefore, \* the receiver as it was when the last call started
    nodeCall,   \* the last Node method call: [op, arg]
    nodeRes     \* what that call returned ("" for a setter)

nodesVars == <<nodes, before, call, res>>

infoVars == <<infoInput, infoPc, clusterInfo>>

cfgVars == <<newConfig, memberRole, cfgApi, worker, sent, errCh, cfgResult>>

decodeVars == <<rawNodes, decodePc, decoded>>

theNodeVars == <<theNode, nodeBefore, nodeCall, nodeRes>>

vars == <<nodes, before, call, res, infoInput, infoPc, clusterInfo,
          newConfig, memberRole, cfgApi, worker, sent, errCh, cfgResult,
          rawNodes, decodePc, decoded, theNode, nodeBefore, nodeCall,
          nodeRes>>

----------------------------------------------------------------------------
(* Strings                                                                 *)

\* The bytes the model's strings are made of, in ascending byte order.
AsciiOrder == "\n %,-.0123456789:<>?@ABCDEFGHIJKLMNOPQRSTUVWXYZ[]abcdefghijklmnopqrstuvwxyz"

CharAt(s, i) == SubSeq(s, i, i)

StrTail(s) == SubSeq(s, 2, Len(s))

Ord(c) == CHOOSE i \in 1..Len(AsciiOrder) : CharAt(AsciiOrder, i) = c

\* Go's < on strings: bytewise lexicographic order.
RECURSIVE StrLess(_, _)
StrLess(a, b) ==
    IF b = "" THEN FALSE
    ELSE IF a = "" THEN TRUE
    ELSE IF CharAt(a, 1) = CharAt(b, 1) THEN StrLess(StrTail(a), StrTail(b))
    ELSE Ord(CharAt(a, 1)) < Ord(CharAt(b, 1))

\* strings.Index(s, sep) from position i on: the first position of sep, 0 if none.
RECURSIVE IndexFrom(_, _, _)
IndexFrom(s, sep, i) ==
    IF i + Len(sep) - 1 > Len(s) THEN 0
    ELSE IF SubSeq(s, i, i + Len(sep) - 1) = sep THEN i
    ELSE IndexFrom(s, sep, i + 1)

Contains(s, sep) == IndexFrom(s, sep, 1) # 0

\* strings.Split(s, sep) for a non-empty sep: every substring between two
\* occurrences of sep, empty ones included; <<s>> when sep does not occur.
RECURSIVE Split(_, _)
Split(s, sep) ==
    LET i == IndexFrom(s, sep, 1)
    IN  IF i = 0 THEN <<s>>
        ELSE <<SubSeq(s, 1, i - 1)>> \o Split(SubSeq(s, i + Len(sep), Len(s)), sep)

\* net.JoinHostPort: a host holding a colon is bracketed.
JoinHostPort(host, port) ==
    IF Contains(host, ":") THEN "[" \o host \o "]:" \o port
    ELSE host \o ":" \o port

----------------------------------------------------------------------------
(* Constants of the package                                                *)

RedisLinkStateConnected == "connected"
RedisLinkStateDisconnected == "disconnected"
NodeStatusPFail == "fail?"
NodeStatusFail == "fail"
NodeStatusHandshake == "handshake"
NodeStatusNoAddr == "noaddr"
NodeStatusNoFlags == "noflags"
DefaultRedisPort == "6379"
RedisMasterRole == "master"
RedisSlaveRole == "slave"

\* The error the lookups return when no node matches.
nodeNotFoundedError == "nodeNotFoundedError"
nil == "nil"

----------------------------------------------------------------------------
(* Node                                                                    *)

\* The empty Go map.
EmptyMap == [k \in {} |-> ""]

\* m[k] = v on a Go map.
MapPut(m, k, v) == [x \in DOMAIN m \cup {k} |-> IF x = k THEN v ELSE m[x]]

\* ServerStartTime and Pod are left out: no decoder, setter, lookup or sort
\* reads or writes them.
NewDefaultNode ==
    [ID |-> "", IP |-> "", Port |-> DefaultRedisPort, Role |-> "",
     LinkState |-> "", MasterReferent |-> "", FailStatus |-> <<>>,
     PingSent |-> 0, PongRecv |-> 0, ConfigEpoch |-> 0,
     Slots |-> <<>>, MigratingSlots |-> EmptyMap, ImportingSlots |-> EmptyMap]

NewNode(id, ip) == [NewDefaultNode EXCEPT !.ID = id, !.IP = ip]

\* A faulty variant: the owned slots are looked at before the referent.
GetRoleSlotsFirst(n) ==
    IF n.Role = RedisMasterRole THEN RedisMasterRole
    ELSE IF n.Role = RedisSlaveRole THEN RedisSlaveRole
    ELSE IF Len(n.Slots) > 0 THEN RedisMasterRole
    ELSE IF n.MasterReferent # "" THEN RedisSlaveRole
    ELSE "none"

GetRole(n) ==
    IF n.Role = RedisMasterRole THEN RedisMasterRole
    ELSE IF n.Role = RedisSlaveRole THEN RedisSlaveRole
    ELSE IF n.MasterReferent # "" THEN RedisSlaveRole
    ELSE IF Len(n.Slots) > 0 THEN RedisMasterRole
    ELSE "none"

IPPort(n) == JoinHostPort(n.IP, n.Port)

TotalSlots(n) == Len(n.Slots)

IsMasterWithNoSlot(n) == (GetRole(n) = RedisMasterRole) /\ (TotalSlots(n) = 0)

IsMasterWithSlot(n) == (GetRole(n) = RedisMasterRole) /\ (TotalSlots(n) > 0)

IsSlave(n) == GetRole(n) = RedisSlaveRole

\* A FindNodeFunc value, called by name.
FindNodeFuncs == {"IsMasterWithSlot", "IsMasterWithNoSlot", "IsSlave"}

FindNodeFunc(f, n) ==
    CASE f = "IsMasterWithSlot" -> IsMasterWithSlot(n)
      [] f = "IsMasterWithNoSlot" -> IsMasterWithNoSlot(n)
      [] f = "IsSlave" -> IsSlave(n)

----------------------------------------------------------------------------
(* Nodes: search and filter                                                *)

\* What a Nodes method hands back: a Nodes slice, a *Node (<<>> is the nil
\* pointer, <<node>> a node), a count and an error.
Returned(ns, node, cnt, err) == [nodes |-> ns, node |-> node, n |-> cnt, err |-> err]

RECURSIVE GetNodesByFuncLoop(_, _, _, _)
GetNodesByFuncLoop(n, f, i, acc) ==
    IF i > Len(n) THEN acc
    ELSE GetNodesByFuncLoop(n, f, i + 1,
                            IF FindNodeFunc(f, n[i]) THEN Append(acc, n[i]) ELSE acc)

\* A faulty GetNodesByFunc: the test for an empty result is missing.
GetNodesByFuncNeverFails(n, f) ==
    Returned(GetNodesByFuncLoop(n, f, 1, <<>>), <<>>, 0, nil)

GetNodesByFunc(n, f) ==
    LET found == GetNodesByFuncLoop(n, f, 1, <<>>)
    IN  IF Len(found) = 0 THEN Returned(found, <<>>, 0, nodeNotFoundedError)
        ELSE Returned(found, <<>>, 0, nil)

RECURSIVE FilterByFuncLoop(_, _, _, _)
FilterByFuncLoop(n, fn, i, newSlice) ==
    IF i > Len(n) THEN newSlice
    ELSE FilterByFuncLoop(n, fn, i + 1,
                          IF FindNodeFunc(fn, n[i]) THEN Append(newSlice, n[i]) ELSE newSlice)

FilterByFunc(n, fn) == Returned(FilterByFuncLoop(n, fn, 1, <<>>), <<>>, 0, nil)

RECURSIVE CountByFuncLoop(_, _, _, _)
CountByFuncLoop(n, fn, i, result) ==
    IF i > Len(n) THEN result
    ELSE CountByFuncLoop(n, fn, i + 1, IF FindNodeFunc(fn, n[i]) THEN result + 1 ELSE result)

CountByFunc(n, fn) == Returned(<<>>, <<>>, CountByFuncLoop(n, fn, 1, 0), nil)

\* The three lookups share one shape: return the first node the loop meets
\* whose key equals the argument.
RECURSIVE GetNodeByIDFrom(_, _, _)
GetNodeByIDFrom(n, id, i) ==
    IF i > Len(n) THEN Returned(<<>>, <<>>, 0, nodeNotFoundedError)
    ELSE IF n[i].ID = id THEN Returned(<<>>, <<n[i]>>, 0, nil)
    ELSE GetNodeByIDFrom(n, id, i + 1)

\* A faulty GetNodeByID: the loop runs from the last node to the first.
RECURSIVE GetNodeByIDLast(_, _, _)
GetNodeByIDLast(n, id, i) ==
    IF i < 1 THEN Returned(<<>>, <<>>, 0, nodeNotFoundedError)
    ELSE IF n[i].ID = id THEN Returned(<<>>, <<n[i]>>, 0, nil)
    ELSE GetNodeByIDLast(n, id, i - 1)

GetNodeByIDReversed(n, id) == GetNodeByIDLast(n, id, Len(n))

GetNodeByID(n, id) == GetNodeByIDFrom(n, id, 1)

RECURSIVE GetNodeByMasterIDFrom(_, _, _)
GetNodeByMasterIDFrom(n, id, i) ==
    IF i > Len(n) THEN Returned(<<>>, <<>>, 0, nodeNotFoundedError)
    ELSE IF n[i].MasterReferent = id THEN Returned(<<>>, <<n[i]>>, 0, nil)
    ELSE GetNodeByMasterIDFrom(n, id, i + 1)

GetNodeByMasterID(n, id) == GetNodeByMasterIDFrom(n, id, 1)

RECURSIVE GetNodeByAddrFrom(_, _, _)
GetNodeByAddrFrom(n, addr, i) ==
    IF i > Len(n) THEN Returned(<<>>, <<>>, 0, nodeNotFoundedError)
    ELSE IF JoinHostPort(n[i].IP, n[i].Port) = addr THEN Returned(<<>>, <<n[i]>>, 0, nil)
    ELSE GetNodeByAddrFrom(n, addr, i + 1)

GetNodeByAddr(n, addr) == GetNodeByAddrFrom(n, addr, 1)

----------------------------------------------------------------------------
(* Nodes: sorting                                                          *)

\* Nodes as a sort.Interface.
Less(n, i, j) == StrLess(n[i].ID, n[j].ID)

Swap(n, i, j) == [n EXCEPT ![i] = n[j], ![j] = n[i]]

LessByID(n1, n2) == StrLess(n1.ID, n2.ID)

MoreByID(n1, n2) == StrLess(n2.ID, n1.ID)

\* A "less" closure handed to SortByFunc, called by name.
LessFuncs == {"LessByID", "MoreByID"}

by(less, p1, p2) ==
    CASE less = "LessByID" -> LessByID(p1, p2)
      [] less = "MoreByID" -> MoreByID(p1, p2)

\* nodeSorter{nodes, by} as a sort.Interface.
nodeSorterLess(s, i, j) == by(s.by, s.nodes[i], s.nodes[j])

nodeSorterSwap(s, i, j) == [s EXCEPT !.nodes = Swap(s.nodes, i, j)]

\* The value handed to sort.Sort is either a Nodes slice (by = "Nodes") or a
\* nodeSorter; sort.Sort reaches the slice only through Len, Less and Swap.
\* sort.Sort counts elements from 0, the sequences here from 1.
dataLen(d) == Len(d.nodes)

dataLess(d, i, j) ==
    IF d.by = "Nodes" THEN Less(d.nodes, i + 1, j + 1) ELSE nodeSorterLess(d, i + 1, j + 1)

dataSwap(d, i, j) == IF d.by = "Nodes" THEN [d EXCEPT !.nodes = Swap(d.nodes, i + 1, j + 1)]
                     ELSE nodeSorterSwap(d, i + 1, j + 1)

\* sort.Sort of go 1.16 (go.mod), on the elements a .. b-1 of the data.
\* insertionSort(data, a, b): the inner loop for one i, then the loop over i.
RECURSIVE insertionInner(_, _, _)
insertionInner(d, a, j) ==
    IF j > a /\ dataLess(d, j, j - 1) THEN insertionInner(dataSwap(d, j, j - 1), a, j - 1)
    ELSE d

RECURSIVE insertionSort(_, _, _, _)
insertionSort(d, a, b, i) ==
    IF i >= b THEN d ELSE insertionSort(insertionInner(d, a, i), a, b, i + 1)

\* The Shell pass with gap 6 that quickSort makes before insertionSort.
RECURSIVE shellPass(_, _, _)
shellPass(d, b, i) ==
    IF i >= b THEN d
    ELSE shellPass(IF dataLess(d, i, i - 6) THEN dataSwap(d, i, i - 6) ELSE d, b, i + 1)

\* siftDown(data, lo, hi, first) and heapSort(data, a, b).
RECURSIVE siftDown(_, _, _, _)
siftDown(d, root, hi, first) ==
    LET left == 2 * root + 1
        child == IF left + 1 < hi /\ dataLess(d, first + left, first + left + 1)
                 THEN left + 1 ELSE left
    IN  IF left >= hi THEN d
        ELSE IF ~dataLess(d, first + root, first + child) THEN d
        ELSE siftDown(dataSwap(d, first + root, first + child), child, hi, first)

RECURSIVE heapBuild(_, _, _, _)
heapBuild(d, i, hi, first) ==
    IF i < 0 THEN d ELSE heapBuild(siftDown(d, i, hi, first), i - 1, hi, first)

RECURSIVE heapPop(_, _, _)
heapPop(d, i, first) ==
    IF i < 0 THEN d ELSE heapPop(siftDown(dataSwap(d, first, first + i), 0, i, first), i - 1, first)

heapSort(d, a, b) == heapPop(heapBuild(d, (b - a - 1) \div 2, b - a, a), b - a - 1, a)

\* medianOfThree(data, m1, m0, m2) moves the median of the three to m1.
medianOfThree(d, m1, m0, m2) ==
    LET d1 == IF dataLess(d, m1, m0) THEN dataSwap(d, m1, m0) ELSE d
    IN  IF dataLess(d1, m2, m1)
        THEN LET d2 == dataSwap(d1, m2, m1)
             IN  IF dataLess(d2, m1, m0) THEN dataSwap(d2, m1, m0) ELSE d2
        ELSE d1

\* doPivot's loops: a++ while data[a] < pivot; b++ while data[b] <= pivot;
\* c-- while data[c-1] > pivot; b-- while data[b-1] >= pivot.
RECURSIVE skipLess(_, _, _, _)
skipLess(d, a, c, pivot) ==
    IF a < c /\ dataLess(d, a, pivot) THEN skipLess(d, a + 1, c, pivot) ELSE a

RECURSIVE skipNotMore(_, _, _, _)
skipNotMore(d, b, c, pivot) ==
    IF b < c /\ ~dataLess(d, pivot, b) THEN skipNotMore(d, b + 1, c, pivot) ELSE b

RECURSIVE skipMore(_, _, _, _)
skipMore(d, b, c, pivot) ==
    IF b < c /\ dataLess(d, pivot, c - 1) THEN skipMore(d, b, c - 1, pivot) ELSE c

RECURSIVE skipNotLess(_, _, _, _)
skipNotLess(d, a, b, pivot) ==
    IF a < b /\ ~dataLess(d, b - 1, pivot) THEN skipNotLess(d, a, b - 1, pivot) ELSE b

\* doPivot's partition loop.
RECURSIVE partition(_, _, _, _)
partition(d, b, c, pivot) ==
    LET b1 == skipNotMore(d, b, c, pivot)
        c1 == skipMore(d, b1, c, pivot)
    IN  IF b1 >= c1 THEN [d |-> d, b |-> b1, c |-> c1]
        ELSE partition(dataSwap(d, b1, c1 - 1), b1 + 1, c1 - 1, pivot)

\* doPivot's loop that protects against many duplicates of the pivot.
RECURSIVE protectLoop(_, _, _, _)
protectLoop(d, a, b, pivot) ==
    LET b1 == skipNotLess(d, a, b, pivot)
        a1 == skipLess(d, a, b1, pivot)
    IN  IF a1 >= b1 THEN [d |-> d, a |-> a1, b |-> b1]
        ELSE protectLoop(dataSwap(d, a1, b1 - 1), a1 + 1, b1 - 1, pivot)

\* doPivot(data, lo, hi), stage by stage. The pivot is moved to lo: for
\* more than 40 elements the median of three medians, else of three elements.
pivotChoose(data, lo, hi, m, s) ==
    medianOfThree(IF hi - lo > 40
                  THEN medianOfThree(medianOfThree(medianOfThree(data, lo, lo + s, lo + 2 * s),
                                                   m, m - s, m + s),
                                     hi - 1, hi - 1 - s, hi - 1 - 2 * s)
                  ELSE data,
                  lo, m, hi - 1)

\* The last step: the pivot is swapped into the middle; r is [d, a, b].
pivotSwap(r, c, pivot) == [d |-> dataSwap(r.d, pivot, r.b - 1), midlo |-> r.b - 1, midhi |-> c]

\* q is [d, b, c, protect].
pivotProtect(q, a, pivot) ==
    pivotSwap(IF q.protect THEN protectLoop(q.d, a, q.b, pivot) ELSE [d |-> q.d, a |-> a, b |-> q.b],
              q.c, pivot)

\* The three tests for equality to the pivot; t is [d, b, c, dups].
pivotDupMid(t, a, m, pivot) ==
    pivotProtect(IF ~dataLess(t.d, m, pivot)
                 THEN [d |-> dataSwap(t.d, m, t.b - 1), b |-> t.b - 1, c |-> t.c,
                       protect |-> t.dups + 1 > 1]
                 ELSE [d |-> t.d, b |-> t.b, c |-> t.c, protect |-> t.dups > 1],
                 a, pivot)

pivotDupLow(t, a, m, pivot) ==
    pivotDupMid(IF ~dataLess(t.d, t.b - 1, pivot) THEN [t EXCEPT !.b = @ - 1, !.dups = @ + 1] ELSE t,
                a, m, pivot)

pivotDupHigh(p, a, m, pivot, hi) ==
    pivotDupLow(IF ~dataLess(p.d, pivot, hi - 1)
                THEN [d |-> dataSwap(p.d, p.c, hi - 1), b |-> p.b, c |-> p.c + 1, dups |-> 1]
                ELSE [d |-> p.d, b |-> p.b, c |-> p.c, dups |-> 0],
                a, m, pivot)

\* p is what the partition loop left: [d, b, c].
pivotDups(p, a, m, lo, hi) ==
    IF ~(hi - p.c < 5) /\ hi - p.c < (hi - lo) \div 4
    THEN pivotDupHigh(p, a, m, lo, hi)
    ELSE pivotProtect([d |-> p.d, b |-> p.b, c |-> p.c, protect |-> hi - p.c < 5], a, lo)

pivotPartition(d, a, m, lo, hi) == pivotDups(partition(d, a, hi - 1, lo), a, m, lo, hi)

pivotScan(d, m, lo, hi) == pivotPartition(d, skipLess(d, lo + 1, hi - 1, lo), m, lo, hi)

doPivot(data, lo, hi) ==
    pivotScan(pivotChoose(data, lo, hi, (lo + hi) \div 2, (hi - lo) \div 8),
              (lo + hi) \div 2, lo, hi)

\* quickSort(data, a, b, maxDepth); quickSortSplit is the loop body after
\* doPivot returned p: the smaller side by recursion, the larger by the loop.
RECURSIVE quickSort(_, _, _, _)
RECURSIVE quickSortSplit(_, _, _, _)
quickSortSplit(p, a, b, depth) ==
    IF p.midlo - a < b - p.midhi
    THEN quickSort(quickSort(p.d, a, p.midlo, depth), p.midhi, b, depth)
    ELSE quickSort(quickSort(p.d, p.midhi, b, depth), a, p.midlo, depth)

quickSort(data, a, b, depth) ==
    IF b - a > 12
    THEN IF depth = 0 THEN heapSort(data, a, b)
         ELSE quickSortSplit(doPivot(data, a, b), a, b, depth - 1)
    ELSE IF b - a > 1 THEN insertionSort(shellPass(data, b, a + 6), a, b, a + 1)
    ELSE data

\* maxDepth(n): twice the number of bits of n.
RECURSIVE maxDepth(_)
maxDepth(n) == IF n > 0 THEN 2 + maxDepth(n \div 2) ELSE 0

sortSort(d) == quickSort(d, 0, dataLen(d), maxDepth(dataLen(d)))

\* by(less).Sort(nodes): sorts the slice it is given, in place.
bySort(less, ns) == sortSort([nodes |-> ns, by |-> less]).nodes

\* SortNodes sorts the receiver's backing array and returns the receiver:
\* recv is what the caller's slice holds afterwards, ret the returned slice.
SortNodes(n) ==
    LET sorted == sortSort([nodes |-> n, by |-> "Nodes"]).nodes
    IN  [recv |-> sorted, ret |-> sorted]

\* SortByFunc copies the receiver into result, sorts the receiver n and
\* returns result.
SortByFunc(n, less) ==
    LET result == n
    IN  [recv |-> bySort(less, n), ret |-> result]

----------------------------------------------------------------------------
(* The Nodes methods as a state machine                                    *)

\* The largest collection the calls are made on.
MaxNodes == 3

nodeMaster == [NewNode("A", "1.2.3.1") EXCEPT !.Role = RedisMasterRole, !.Slots = <<0, 1, 4, 10>>]
nodeSlave == [NewNode("B", "1.2.3.2") EXCEPT !.Role = RedisSlaveRole, !.MasterReferent = "A"]
nodeUnset == [NewNode("C", "1.2.3.3") EXCEPT !.Role = RedisMasterRole]
\* a second node with id A, an IPv6 address and an inferred role
nodeTwin == [NewNode("A", "::1") EXCEPT !.MasterReferent = "C"]
\* a node with no role at all, at nodeMaster's address
nodeNone == NewNode("AB", "1.2.3.1")
nodeSlave2 == [NewNode("D", "1.2.3.4") EXCEPT !.MasterReferent = "A", !.Port = "6380"]

NodePool == {nodeMaster, nodeSlave, nodeUnset, nodeTwin, nodeNone, nodeSlave2}

NodeIDs == {"A", "B", "AB", "Z"}
MasterIDs == {"A", "C", "", "Z"}
Addrs == {"1.2.3.1:6379", "[::1]:6379", "::1:6379", "1.2.3.4:6379"}

Collections == UNION {[1..k -> NodePool] : k \in 0..MaxNodes}

NoCall == [op |-> "none", arg |-> ""]

\* No Nodes method is under way.
NodesIdle ==
    /\ before = nodes
    /\ call = NoCall
    /\ res = Returned(<<>>, <<>>, 0, nil)

\* No CLUSTER INFO text is being decoded.
InfoIdle ==
    /\ infoInput = ""
    /\ infoPc = "idle"
    /\ clusterInfo = EmptyMap

\* No configuration fan-out is under way.
CfgIdle ==
    /\ newConfig = EmptyMap
    /\ memberRole = <<>>
    /\ cfgApi = "idle"
    /\ worker = <<>>
    /\ sent = <<>>
    /\ errCh = <<>>
    /\ cfgResult = [kind |-> "pending", member |-> 0, key |-> ""]

\* No CLUSTER NODES text is being decoded.
DecodeIdle ==
    /\ rawNodes = ""
    /\ decodePc = "idle"
    /\ decoded = <<>>

\* No Node method is under way.
TheNodeIdle ==
    /\ theNode = NewDefaultNode
    /\ nodeBefore = theNode
    /\ nodeCall = NoCall
    /\ nodeRes = ""

InitNodes ==
    /\ nodes \in Collections
    /\ NodesIdle
    /\ InfoIdle
    /\ CfgIdle
    /\ DecodeIdle
    /\ TheNodeIdle

\* A call that leaves the receiver alone.
Query(op, arg, r) ==
    /\ before' = nodes
    /\ call' = [op |-> op, arg |-> arg]
    /\ res' = r
    /\ UNCHANGED nodes
    /\ UNCHANGED infoVars
    /\ UNCHANGED cfgVars
    /\ UNCHANGED decodeVars
    /\ UNCHANGED theNodeVars

\* A sort call: s.recv is what the receiver holds afterwards.
Sorting(op, arg, s) ==
    /\ before' = nodes
    /\ call' = [op |-> op, arg |-> arg]
    /\ nodes' = s.recv
    /\ res' = Returned(s.ret, <<>>, 0, nil)
    /\ UNCHANGED infoVars
    /\ UNCHANGED cfgVars
    /\ UNCHANGED decodeVars
    /\ UNCHANGED theNodeVars

CallGetNodesByFunc == \E f \in FindNodeFuncs : Query("GetNodesByFunc", f, GetNodesByFunc(nodes, f))

CallFilterByFunc == \E f \in FindNodeFuncs : Query("FilterByFunc", f, FilterByFunc(nodes, f))

CallCountByFunc == \E f \in FindNodeFuncs : Query("CountByFunc", f, CountByFunc(nodes, f))

CallGetNodeByID == \E id \in NodeIDs : Query("GetNodeByID", id, GetNodeByID(nodes, id))

CallGetNodeByMasterID ==
    \E id \in MasterIDs : Query("GetNodeByMasterID", id, GetNodeByMasterID(nodes, id))

CallGetNodeByAddr == \E addr \in Addrs : Query("GetNodeByAddr", addr, GetNodeByAddr(nodes, addr))

CallSortNodes == Sorting("SortNodes", "", SortNodes(nodes))

CallSortByFunc == \E less \in LessFuncs : Sorting("SortByFunc", less, SortByFunc(nodes, less))

NextNodes ==
    \/ CallGetNodesByFunc
    \/ CallFilterByFunc
    \/ CallCountByFunc
    \/ CallGetNodeByID
    \/ CallGetNodeByMasterID
    \/ CallGetNodeByAddr
    \/ CallSortNodes
    \/ CallSortByFunc

SpecNodes == InitNodes /\ [][NextNodes]_vars

\* The sorts on collections too large for sort.Sort's insertion sort.
ManyNodes == 13

\* How many of the nodes have the id A.
ManyTwins == 8

\* ManyNodes nodes in the order of their ids: ManyTwins nodes of id A, each
\* nodeMaster or nodeTwin, then nodes of id B.
ManyCollections ==
    {[i \in 1..ManyNodes |-> IF i <= ManyTwins THEN twins[i] ELSE nodeSlave] :
        twins \in [1..ManyTwins -> {nodeMaster, nodeTwin}]}

InitManyNodes ==
    /\ nodes \in ManyCollections
    /\ NodesIdle
    /\ InfoIdle
    /\ CfgIdle
    /\ DecodeIdle
    /\ TheNodeIdle

NextManyNodes ==
    \/ CallSortNodes
    \/ CallSortByFunc

SpecManyNodes == InitManyNodes /\ [][NextManyNodes]_vars

----------------------------------------------------------------------------
(* Properties of the Nodes methods                                         *)

Occurrences(s, x) == Cardinality({i \in 1..Len(s) : s[i] = x})

IsPermutation(a, b) ==
    /\ Len(a) = Len(b)
    /\ \A i \in 1..Len(a) : Occurrences(a, a[i]) = Occurrences(b, a[i])

OrderedBy(less, s) == \A i \in 1..(Len(s) - 1) : ~by(less, s[i + 1], s[i])

\* The nodes of n that satisfy f, in n's order.
Matching(n, f) == SelectSeq(n, LAMBDA x : FindNodeFunc(f, x))

\* C1: the collection SortByFunc(less) returns is a permutation of the
\* receiver that is ordered according to less: no adjacent pair a, b of the
\* result has less(b, a); ascending ids for LessByID, descending for MoreByID.
C1_SortByFuncReturnsOrdered ==
    call.op = "SortByFunc" =>
        /\ IsPermutation(res.nodes, before)
        /\ OrderedBy(call.arg, res.nodes)

\* C2: after SortNodes() or SortByFunc(less) returns, the receiver still
\* holds the same nodes in the same order as before the call.
C2_SortLeavesReceiverAlone ==
    call.op \in {"SortNodes", "SortByFunc"} => nodes = before

LookupKey(op, n) ==
    CASE op = "GetNodeByID" -> n.ID
      [] op = "GetNodeByMasterID" -> n.MasterReferent
      [] op = "GetNodeByAddr" -> (IF Contains(n.IP, ":") THEN "[" \o n.IP \o "]" ELSE n.IP)
                                   \o ":" \o n.Port

LookupHits(op, n, arg) == {i \in 1..Len(n) : LookupKey(op, n[i]) = arg}

\* C8: GetNodeByID, GetNodeByMasterID and GetNodeByAddr return the not-found
\* error and a nil node if and only if no node has that ID / MasterReferent /
\* joined host:port; otherwise they return, without error, the first node in
\* collection order that matches. On an empty collection they return not-found.
C8_LookupFirstOrNotFound ==
    call.op \in {"GetNodeByID", "GetNodeByMasterID", "GetNodeByAddr"} =>
        LET hits == LookupHits(call.op, before, call.arg)
        IN  /\ (res.err = nodeNotFoundedError) <=> (hits = {})
            /\ hits = {} => res.node = <<>>
            /\ hits # {} =>
                /\ res.err = nil
                /\ res.node = <<before[CHOOSE i \in hits : \A j \in hits : i <= j]>>
            /\ before = <<>> => res.err = nodeNotFoundedError

\* C8's case: two different nodes carry the id looked up, and GetNodeByID
\* has returned the earlier one.
C8_Witness ==
    /\ call.op = "GetNodeByID"
    /\ \E i, j \in 1..Len(before) :
        /\ i < j
        /\ before[i].ID = call.arg
        /\ before[j].ID = call.arg
        /\ before[i] # before[j]
        /\ res.node = <<before[i]>>


\* C12: SortNodes returns a permutation of the collection it was called on
\* whose ids are non-decreasing (no node's id is smaller than the id of the
\* node before it); called on a collection whose ids are already
\* non-decreasing it returns the collection in the same order, so sorting
\* the result again changes nothing; the empty collection sorts to the empty
\* collection.
C12_SortNodesOrderedIdempotent ==
    call.op = "SortNodes" =>
        LET sorted == res.nodes
            NonDecreasing(s) == \A i \in 1..(Len(s) - 1) : ~StrLess(s[i + 1].ID, s[i].ID)
        IN  /\ res.err = nil
            /\ IsPermutation(sorted, before)
            /\ NonDecreasing(sorted)
            /\ NonDecreasing(before) => sorted = before
            /\ SortNodes(sorted).ret = sorted
            /\ before = <<>> => sorted = <<>>

----------------------------------------------------------------------------
(* DecodeClusterInfos                                                      *)

\* One turn of the loop over the lines: a line that splits into fewer than
\* two values is skipped, any other binds values[0] to values[1].
DecodeClusterInfoLine(clusterInfoMap, line) ==
    LET values == Split(line, ":")
    IN  IF Len(values) < 2 THEN clusterInfoMap
        ELSE MapPut(clusterInfoMap, values[1], values[2])

RECURSIVE DecodeClusterInfoLines(_, _, _)
DecodeClusterInfoLines(lines, i, clusterInfoMap) ==
    IF i > Len(lines) THEN clusterInfoMap
    ELSE DecodeClusterInfoLines(lines, i + 1, DecodeClusterInfoLine(clusterInfoMap, lines[i]))

DecodeClusterInfos(input) == DecodeClusterInfoLines(Split(input, "\n"), 1, EmptyMap)

\* The longest CLUSTER INFO text decoded.
MaxInfoLen == 5

InfoAlphabet == {"k", "v", ":", "\n"}

RECURSIVE StringsOfLen(_, _)
StringsOfLen(alphabet, k) ==
    IF k = 0 THEN {""}
    ELSE {s \o c : s \in StringsOfLen(alphabet, k - 1), c \in alphabet}

InfoInputs == UNION {StringsOfLen(InfoAlphabet, k) : k \in 0..MaxInfoLen}

InitInfos ==
    /\ infoInput \in InfoInputs
    /\ infoPc = "input"
    /\ clusterInfo = EmptyMap
    /\ nodes = <<>>
    /\ NodesIdle
    /\ CfgIdle
    /\ DecodeIdle
    /\ TheNodeIdle

CallDecodeClusterInfos ==
    /\ infoPc = "input"
    /\ clusterInfo' = DecodeClusterInfos(infoInput)
    /\ infoPc' = "decoded"
    /\ UNCHANGED infoInput
    /\ UNCHANGED nodesVars
    /\ UNCHANGED cfgVars
    /\ UNCHANGED decodeVars
    /\ UNCHANGED theNodeVars

NextInfos == CallDecodeClusterInfos

SpecInfos == InitInfos /\ [][NextInfos]_vars

\* The text before the first colon of a line, and the text after it.
KeyOfLine(line) == SubSeq(line, 1, IndexFrom(line, ":", 1) - 1)

ValueOfLine(line) == SubSeq(line, IndexFrom(line, ":", 1) + 1, Len(line))

\* C4: DecodeClusterInfos splits each line on the first colon only: the map
\* binds the key of every key:value line to the entire text after the first
\* colon (of the last line with that key), and lines with no colon add no entry.
C4_InfoSplitsOnFirstColon ==
    infoPc = "decoded" =>
        LET lines == Split(infoInput, "\n")
            keyed == {i \in 1..Len(lines) : Contains(lines[i], ":")}
        IN  /\ DOMAIN clusterInfo = {KeyOfLine(lines[i]) : i \in keyed}
            /\ \A i \in keyed :
                (\A j \in keyed : j > i => KeyOfLine(lines[j]) # KeyOfLine(lines[i]))
                    => clusterInfo[KeyOfLine(lines[i])] = ValueOfLine(lines[i])

----------------------------------------------------------------------------
(* Numbers in text                                                         *)

Digits == "0123456789"

IsDigit(c) == Len(c) = 1 /\ Contains(Digits, c)

DigitVal(c) == IndexFrom(Digits, c, 1) - 1

RECURSIVE AllDigits(_)
AllDigits(s) == s = "" \/ (IsDigit(CharAt(s, 1)) /\ AllDigits(StrTail(s)))

RECURSIVE DigitsValue(_, _)
DigitsValue(s, acc) ==
    IF s = "" THEN acc ELSE DigitsValue(StrTail(s), acc * 10 + DigitVal(CharAt(s, 1)))

\* strconv.ParseInt(s, 10, 64): an optional sign, then one or more decimal
\* digits. (The texts of the model stay far below the 64-bit range.)
ParseInt(s) ==
    LET signed == s # "" /\ CharAt(s, 1) \in {"+", "-"}
        digits == IF signed THEN StrTail(s) ELSE s
    IN  IF digits = "" \/ ~AllDigits(digits) THEN [err |-> "syntax", val |-> 0]
        ELSE [err |-> nil,
              val |-> IF signed /\ CharAt(s, 1) = "-" THEN 0 - DigitsValue(digits, 0)
                      ELSE DigitsValue(digits, 0)]

RECURSIVE FormatUint(_)
FormatUint(n) ==
    IF n < 10 THEN CharAt(Digits, n + 1)
    ELSE FormatUint(n \div 10) \o CharAt(Digits, (n % 10) + 1)

\* strconv.FormatInt(n, 10)
FormatInt(n) == IF n < 0 THEN "-" \o FormatUint(0 - n) ELSE FormatUint(n)

HasSuffix(s, suffix) ==
    Len(s) >= Len(suffix) /\ SubSeq(s, Len(s) - Len(suffix) + 1, Len(s)) = suffix

TrimSuffix(s, suffix) == SubSeq(s, 1, Len(s) - Len(suffix))

----------------------------------------------------------------------------
(* The configuration fan-out                                               *)

\* utils.ParseRedisMemConf, the normalizer of human-readable sizes: a decimal
\* number with an optional unit (k, kb, m, mb, g, gb, b) becomes the decimal
\* byte count; any other text is an error.
MemUnits == <<[suffix |-> "kb", mul |-> 1024], [suffix |-> "k", mul |-> 1000],
              [suffix |-> "mb", mul |-> 1024 * 1024], [suffix |-> "m", mul |-> 1000 * 1000],
              [suffix |-> "gb", mul |-> 1024 * 1024 * 1024],
              [suffix |-> "g", mul |-> 1000 * 1000 * 1000],
              [suffix |-> "b", mul |-> 1]>>

ParseRedisMemConf(p) ==
    LET matching == {i \in 1..Len(MemUnits) : HasSuffix(p, MemUnits[i].suffix)}
        unit == IF matching = {} THEN [suffix |-> "", mul |-> 1]
                ELSE MemUnits[CHOOSE i \in matching : \A j \in matching : i <= j]
        val == ParseInt(TrimSuffix(p, unit.suffix))
    IN  IF val.err # nil THEN [err |-> val.err, value |-> ""]
        ELSE [err |-> nil, value |-> FormatInt(val.val * unit.mul)]

\* The keys whose values are sizes.
parseConfigMap ==
    {"maxmemory", "proto-max-bulk-len", "client-query-buffer-limit", "repl-backlog-size",
     "auto-aof-rewrite-min-size", "active-defrag-ignore-bytes", "hash-max-ziplist-entries",
     "hash-max-ziplist-value", "stream-node-max-bytes", "set-max-intset-entries",
     "zset-max-ziplist-entries", "zset-max-ziplist-value", "hll-sparse-max-bytes"}

\* One turn of SetRedisConfig's loop over newConfig, up to the ConfigSet call:
\* what the turn does with the pair (key, value). The value parsed inside the
\* if block is a new variable of that block; the ConfigSet call after the
\* block reads the loop's own value.
\* A faulty variant: the continue is missing, every pair is sent.
SetRedisConfigTurnSendsUnparsed(key, value) ==
    [do |-> "ConfigSet", key |-> key, value |-> value]

SetRedisConfigTurn(key, value) ==
    IF key \in parseConfigMap
    THEN LET parsed == ParseRedisMemConf(value)
         IN  IF parsed.err # nil THEN [do |-> "continue", key |-> key, value |-> value]
             ELSE [do |-> "ConfigSet", key |-> key, value |-> value]
    ELSE [do |-> "ConfigSet", key |-> key, value |-> value]

\* The same turn in the callback SetConfigIfNeed hands to ForEachMaster.
SetConfigIfNeedTurn(key, value) ==
    IF key \in parseConfigMap
    THEN LET parsed == ParseRedisMemConf(value)
         IN  IF parsed.err # nil THEN [do |-> "continue", key |-> key, value |-> value]
             ELSE [do |-> "ConfigSet", key |-> key, value |-> value]
    ELSE [do |-> "ConfigSet", key |-> key, value |-> value]

\* The three fan-out methods: the role each dispatches to.
TargetRole(api) ==
    CASE api = "SetConfigIfNeed" -> RedisMasterRole
      [] api = "UpdateMasterConfig" -> RedisMasterRole
      [] api = "UpdateSlaveConfig" -> RedisSlaveRole

Apis == {"SetConfigIfNeed", "UpdateMasterConfig", "UpdateSlaveConfig"}

Turn(api, key, value) ==
    IF api = "SetConfigIfNeed" THEN SetConfigIfNeedTurn(key, value)
    ELSE SetRedisConfigTurn(key, value)

\* An error value: its kind, and the member and key of the ConfigSet call it
\* comes from.
Err(kind, member, key) == [kind |-> kind, member |-> member, key |-> key]

NilErr == Err("nil", 0, "")

Pending == Err("pending", 0, "")

\* The callback's goroutine on one member: "off" (the member is not of the
\* target role), "running" (in the loop over newConfig; left holds the keys
\* the range has still to yield), "returned" (the callback returned ret),
\* "done" (the goroutine has offered its error and finished).
NewWorker(targeted, keys) ==
    [pc |-> IF targeted THEN "running" ELSE "off", left |-> keys, ret |-> NilErr]

\* What the loop does once ConfigSet(key, value) has answered: go on with the
\* next key, or return the error.
\* A faulty variant: ConfigSet's error is dropped and the loop goes on.
AfterConfigSetIgnoresError(w, member, key, ok) == [w EXCEPT !.left = @ \ {key}]

AfterConfigSet(w, member, key, ok) ==
    IF ok THEN [w EXCEPT !.left = @ \ {key}]
    ELSE [w EXCEPT !.pc = "returned", !.ret = Err("ConfigSet", member, key)]

\* The goroutine's non-blocking send of a non-nil error on errCh.
OfferError(ch, err) == IF err # NilErr /\ ch = <<>> THEN <<err>> ELSE ch

\* After wg.Wait(): the error waiting on errCh, nil when there is none.
ReceiveError(ch) == IF ch # <<>> THEN ch[1] ELSE NilErr

\* The most members the cluster has.
MaxMembers == 2

\* One key whose value is a size and one whose value is not; a size with a
\* unit, a plain number and a text that is no size.
ConfigKeys == {"maxmemory", "appendonly"}

ConfigValues == {"1kb", "64", "x"}

ConfigMaps == UNION {[keys -> ConfigValues] : keys \in SUBSET ConfigKeys}

Clusters == UNION {[1..k -> {RedisMasterRole, RedisSlaveRole}] : k \in 1..MaxMembers}

InitConfig ==
    /\ newConfig \in ConfigMaps
    /\ memberRole \in Clusters
    /\ cfgApi = "idle"
    /\ worker = [m \in DOMAIN memberRole |-> NewWorker(FALSE, {})]
    /\ sent = [m \in DOMAIN memberRole |-> [k \in DOMAIN newConfig |-> <<>>]]
    /\ errCh = <<>>
    /\ cfgResult = Pending
    /\ nodes = <<>>
    /\ NodesIdle
    /\ InfoIdle
    /\ DecodeIdle
    /\ TheNodeIdle

\* ForEachMaster / ForEachSlave (go-redis) starts one goroutine per member of
\* the role; each runs the callback, offers a non-nil error on errCh without
\* blocking, and the method returns after all of them with the error on
\* errCh, if any.
Dispatch ==
    \E api \in Apis :
        /\ cfgApi = "idle"
        /\ cfgApi' = api
        /\ worker' = [m \in DOMAIN memberRole |->
                        NewWorker(memberRole[m] = TargetRole(api), DOMAIN newConfig)]
        /\ UNCHANGED <<newConfig, memberRole, sent, errCh, cfgResult>>
        /\ UNCHANGED <<nodesVars, infoVars, decodeVars, theNodeVars>>

\* ForEachMaster / ForEachSlave cannot load the cluster state: it returns
\* the error without running the callback, and the method returns it.
DispatchFails ==
    \E api \in Apis :
        /\ cfgApi = "idle"
        /\ cfgApi' = api
        /\ cfgResult' = Err("ClusterState", 0, "")
        /\ UNCHANGED <<newConfig, memberRole, worker, sent, errCh>>
        /\ UNCHANGED <<nodesVars, infoVars, decodeVars, theNodeVars>>

\* The range over newConfig yields a key whose turn ends in continue.
SkipKey(m) ==
    \E key \in worker[m].left :
        /\ worker[m].pc = "running"
        /\ Turn(cfgApi, key, newConfig[key]).do = "continue"
        /\ worker' = [worker EXCEPT ![m].left = @ \ {key}]
        /\ UNCHANGED <<newConfig, memberRole, cfgApi, sent, errCh, cfgResult>>
        /\ UNCHANGED <<nodesVars, infoVars, decodeVars, theNodeVars>>

\* The range yields a key whose turn calls ConfigSet; the member answers ok
\* or the call fails.
ConfigSet(m, ok) ==
    \E key \in worker[m].left :
        LET turn == Turn(cfgApi, key, newConfig[key])
        IN  /\ worker[m].pc = "running"
            /\ turn.do = "ConfigSet"
            /\ sent' = [sent EXCEPT ![m][turn.key] = Append(@, [value |-> turn.value, ok |-> ok])]
            /\ worker' = [worker EXCEPT ![m] = AfterConfigSet(@, m, key, ok)]
            /\ UNCHANGED <<newConfig, memberRole, cfgApi, errCh, cfgResult>>
            /\ UNCHANGED <<nodesVars, infoVars, decodeVars, theNodeVars>>

ConfigSetOk == \E m \in DOMAIN worker : ConfigSet(m, TRUE)

ConfigSetFails == \E m \in DOMAIN worker : ConfigSet(m, FALSE)

SkipUnparseable == \E m \in DOMAIN worker : SkipKey(m)

\* The range is exhausted: the callback returns nil, and the goroutine,
\* which offers no nil error, finishes.
CallbackReturnsNil ==
    \E m \in DOMAIN worker :
        /\ worker[m].pc = "running"
        /\ worker[m].left = {}
        /\ worker' = [worker EXCEPT ![m].pc = "done"]
        /\ UNCHANGED <<newConfig, memberRole, cfgApi, sent, errCh, cfgResult>>
        /\ UNCHANGED <<nodesVars, infoVars, decodeVars, theNodeVars>>

\* The callback returned an error: the goroutine offers it on errCh and finishes.
GoroutineDone ==
    \E m \in DOMAIN worker :
        /\ worker[m].pc = "returned"
        /\ errCh' = OfferError(errCh, worker[m].ret)
        /\ worker' = [worker EXCEPT ![m].pc = "done"]
        /\ UNCHANGED <<newConfig, memberRole, cfgApi, sent, cfgResult>>
        /\ UNCHANGED <<nodesVars, infoVars, decodeVars, theNodeVars>>

\* Every goroutine has finished: the method returns what errCh holds.
FanOutReturns ==
    /\ cfgApi # "idle"
    /\ cfgResult = Pending
    /\ \A m \in DOMAIN worker : worker[m].pc \in {"off", "done"}
    /\ cfgResult' = ReceiveError(errCh)
    /\ errCh' = <<>>
    /\ UNCHANGED <<newConfig, memberRole, cfgApi, worker, sent>>
    /\ UNCHANGED <<nodesVars, infoVars, decodeVars, theNodeVars>>

NextConfig ==
    \/ Dispatch
    \/ DispatchFails
    \/ SkipUnparseable
    \/ ConfigSetOk
    \/ ConfigSetFails
    \/ CallbackReturnsNil
    \/ GoroutineDone
    \/ FanOutReturns

SpecConfig == InitConfig /\ [][NextConfig]_vars

----------------------------------------------------------------------------
(* Properties of the configuration fan-out                                 *)

Unparseable(k) == k \in parseConfigMap /\ ParseRedisMemConf(newConfig[k]).err # nil

\* C3: for a key of parseConfigMap whose value parses, the value sent in the
\* ConfigSet call to each member is the byte count ParseRedisMemConf
\* produces, not the string the caller supplied.
C3_SizeValueSentNormalized ==
    \A m \in DOMAIN sent : \A k \in DOMAIN sent[m] : \A i \in 1..Len(sent[m][k]) :
        (k \in parseConfigMap /\ ParseRedisMemConf(newConfig[k]).err = nil)
            => sent[m][k][i].value = ParseRedisMemConf(newConfig[k]).value

\* C5: under every interleaving, when the fan-out has returned: if a
\* ConfigSet call failed on any member then it returned a non-nil error, so
\* it returned nil only if every ConfigSet it attempted succeeded; only
\* members of the target role were called; and no call was retried (no
\* member was sent the same key twice).
C5_FanOutReportsFailure ==
    /\ \A m \in DOMAIN sent : \A k \in DOMAIN sent[m] :
        /\ Len(sent[m][k]) <= 1
        /\ Len(sent[m][k]) > 0 => memberRole[m] = TargetRole(cfgApi)
    /\ cfgResult # Pending =>
        /\ (\E m \in DOMAIN sent : \E k \in DOMAIN sent[m] :
                \E i \in 1..Len(sent[m][k]) : ~sent[m][k][i].ok) => cfgResult # NilErr
        /\ cfgResult.kind = "ConfigSet" =>
            /\ cfgResult.member \in DOMAIN sent
            /\ cfgResult.key \in DOMAIN newConfig
            /\ \E i \in 1..Len(sent[cfgResult.member][cfgResult.key]) :
                ~sent[cfgResult.member][cfgResult.key][i].ok

\* C5's case: two members of the target role ran concurrently, a ConfigSet
\* succeeded on one and failed on the other, and the fan-out has returned
\* the error.
C5_Witness ==
    /\ cfgResult.kind = "ConfigSet"
    /\ \E m1, m2 \in DOMAIN sent :
        /\ m1 # m2
        /\ \E k \in DOMAIN newConfig : sent[m1][k] # <<>> /\ ~sent[m1][k][1].ok
        /\ \E k \in DOMAIN newConfig : sent[m2][k] # <<>> /\ sent[m2][k][1].ok

\* C6: a key of parseConfigMap whose value does not parse is never sent;
\* the callback goes on with the other keys, so that when it returns nil
\* every other key has been sent to the member; and the fan-out returns an
\* error only if a ConfigSet call failed or the cluster state could not be
\* loaded, never because of the value.
C6_UnparseableKeySkipped ==
    /\ \A m \in DOMAIN sent : \A k \in DOMAIN sent[m] :
        Unparseable(k) => sent[m][k] = <<>>
    /\ \A m \in DOMAIN worker :
        /\ (worker[m].pc = "running") =>
            \A k \in DOMAIN newConfig :
                (~Unparseable(k) /\ sent[m][k] = <<>>) => k \in worker[m].left
        /\ (worker[m].pc = "done" /\ worker[m].ret = NilErr) =>
            \A k \in DOMAIN newConfig : ~Unparseable(k) => Len(sent[m][k]) = 1
    /\ cfgResult \notin {Pending, NilErr} =>
        \/ cfgResult.kind = "ClusterState"
        \/ \E m \in DOMAIN sent : \E k \in DOMAIN sent[m] :
            sent[m][k] # <<>> /\ ~sent[m][k][1].ok

\* C6's case: the settings hold a size key with an unparseable value and
\* another key; the fan-out has returned nil, having sent the other key and
\* not the unparseable one.
C6_Witness ==
    /\ cfgResult = NilErr
    /\ \E k1, k2 \in DOMAIN newConfig : \E m \in DOMAIN sent :
        /\ Unparseable(k1)
        /\ sent[m][k1] = <<>>
        /\ k2 # k1
        /\ Len(sent[m][k2]) = 1
        /\ sent[m][k2][1].ok

----------------------------------------------------------------------------
(* Node setters                                                            *)

RECURSIVE SetRoleLoop(_, _, _)
SetRoleLoop(role, vals, i) ==
    IF i > Len(vals) THEN role
    ELSE SetRoleLoop(IF vals[i] = RedisMasterRole THEN RedisMasterRole
                     ELSE IF vals[i] = RedisSlaveRole THEN RedisSlaveRole
                     ELSE role,
                     vals, i + 1)

\* A faulty variant: the role is not reset before the flags are applied.
SetRoleKeepsOld(n, flags) == [n EXCEPT !.Role = SetRoleLoop(n.Role, Split(flags, ","), 1)]

SetRole(n, flags) == [n EXCEPT !.Role = SetRoleLoop("", Split(flags, ","), 1)]

SetLinkStatus(n, status) ==
    [n EXCEPT !.LinkState = IF status = RedisLinkStateConnected THEN RedisLinkStateConnected
                            ELSE IF status = RedisLinkStateDisconnected
                            THEN RedisLinkStateDisconnected
                            ELSE ""]

FailFlags == {NodeStatusFail, NodeStatusPFail, NodeStatusHandshake, NodeStatusNoAddr,
              NodeStatusNoFlags}

RECURSIVE SetFailureStatusLoop(_, _, _)
SetFailureStatusLoop(failStatus, vals, i) ==
    IF i > Len(vals) THEN failStatus
    ELSE SetFailureStatusLoop(IF vals[i] \in FailFlags THEN Append(failStatus, vals[i])
                              ELSE failStatus,
                              vals, i + 1)

SetFailureStatus(n, flags) ==
    [n EXCEPT !.FailStatus = SetFailureStatusLoop(<<>>, Split(flags, ","), 1)]

SetReferentMaster(n, ref) == [n EXCEPT !.MasterReferent = IF ref = "-" THEN "" ELSE ref]

HasStatus(n, flag) == \E i \in 1..Len(n.FailStatus) : n.FailStatus[i] = flag

----------------------------------------------------------------------------
(* The Node methods as a state machine                                     *)

\* The most flags in a generated flags argument.
MaxFlags == 2

FlagTokens == {RedisMasterRole, RedisSlaveRole, NodeStatusFail}

RECURSIVE JoinFlags(_)
JoinFlags(l) ==
    IF l = <<>> THEN ""
    ELSE IF Len(l) = 1 THEN l[1]
    ELSE l[1] \o "," \o JoinFlags(Tail(l))

\* The flags arguments: every list of at most MaxFlags tokens, and the flags
\* of the package's tests.
FlagsArgs ==
    {JoinFlags(l) : l \in UNION {[1..k -> FlagTokens] : k \in 0..MaxFlags}}
        \cup {"king", "myself,slave", "myself,master,fail?",
              "fail?,handshake,noaddr,noflags"}

LinkArgs == {RedisLinkStateConnected, RedisLinkStateDisconnected, "blabla"}

ReferentArgs == {"-", "A"}

StatusArgs == FailFlags \cup {RedisMasterRole}

\* The receivers: a fresh node, and a node that owns slots.
NodeStarts == {NewDefaultNode, [NewNode("A", "1.2.3.1") EXCEPT !.Slots = <<0, 1>>]}

InitNode ==
    /\ theNode \in NodeStarts
    /\ nodeBefore = theNode
    /\ nodeCall = NoCall
    /\ nodeRes = ""
    /\ nodes = <<>>
    /\ NodesIdle
    /\ InfoIdle
    /\ CfgIdle
    /\ DecodeIdle

\* A call of one of the node's methods: n is the receiver afterwards, r what
\* the method returned.
NodeMethod(op, arg, n, r) ==
    /\ nodeBefore' = theNode
    /\ nodeCall' = [op |-> op, arg |-> arg]
    /\ theNode' = n
    /\ nodeRes' = r
    /\ UNCHANGED <<nodesVars, infoVars, cfgVars, decodeVars>>

CallSetRole == \E flags \in FlagsArgs : NodeMethod("SetRole", flags, SetRole(theNode, flags), "")

CallSetLinkStatus ==
    \E status \in LinkArgs :
        NodeMethod("SetLinkStatus", status, SetLinkStatus(theNode, status), "")

CallSetFailureStatus ==
    \E flags \in FlagsArgs :
        NodeMethod("SetFailureStatus", flags, SetFailureStatus(theNode, flags), "")

CallSetReferentMaster ==
    \E ref \in ReferentArgs :
        NodeMethod("SetReferentMaster", ref, SetReferentMaster(theNode, ref), "")

CallGetRole == NodeMethod("GetRole", "", theNode, GetRole(theNode))

CallFindNodeFunc == \E f \in FindNodeFuncs : NodeMethod(f, "", theNode, FindNodeFunc(f, theNode))

CallHasStatus ==
    \E flag \in StatusArgs : NodeMethod("HasStatus", flag, theNode, HasStatus(theNode, flag))

NextNode ==
    \/ CallSetRole
    \/ CallSetLinkStatus
    \/ CallSetFailureStatus
    \/ CallSetReferentMaster
    \/ CallGetRole
    \/ CallFindNodeFunc
    \/ CallHasStatus

SpecNode == InitNode /\ [][NextNode]_vars

----------------------------------------------------------------------------
(* Properties of the Node methods                                          *)

\* The flags of a comma-separated flags string that belong to the set known.
RecognizedIn(flags, known) == SelectSeq(Split(flags, ","), LAMBDA v : v \in known)

\* The field of the node n that the setter op writes.
FieldOf(op, n) ==
    CASE op = "SetRole" -> n.Role
      [] op = "SetLinkStatus" -> n.LinkState
      [] op = "SetFailureStatus" -> n.FailStatus
      [] op = "SetReferentMaster" -> n.MasterReferent

ApplySetter(op, n, arg) ==
    CASE op = "SetRole" -> SetRole(n, arg)
      [] op = "SetLinkStatus" -> SetLinkStatus(n, arg)
      [] op = "SetFailureStatus" -> SetFailureStatus(n, arg)
      [] op = "SetReferentMaster" -> SetReferentMaster(n, arg)

Setters == {"SetRole", "SetLinkStatus", "SetFailureStatus", "SetReferentMaster"}

\* C11: the setters reset before applying. After a call of SetRole,
\* SetLinkStatus, SetFailureStatus or SetReferentMaster, whatever the node
\* held before, the field holds what the same call leaves on a fresh node (it
\* depends on the last argument only), the other fields are as before,
\* applying the same argument again changes nothing, and an argument with no
\* recognized role (link state) leaves Role (LinkState) empty.
C11_SettersResetBeforeApplying ==
    nodeCall.op \in Setters =>
        LET op == nodeCall.op
            arg == nodeCall.arg
        IN  /\ FieldOf(op, theNode) = FieldOf(op, ApplySetter(op, NewDefaultNode, arg))
            /\ \A other \in Setters \ {op} : FieldOf(other, theNode) = FieldOf(other, nodeBefore)
            /\ ApplySetter(op, theNode, arg) = theNode
            /\ (op = "SetRole" /\ RecognizedIn(arg, {RedisMasterRole, RedisSlaveRole}) = <<>>)
                   => theNode.Role = ""
            /\ (op = "SetLinkStatus"
                    /\ arg \notin {RedisLinkStateConnected, RedisLinkStateDisconnected})
                   => theNode.LinkState = ""
            /\ (op = "SetRole" /\ arg \in {RedisMasterRole, RedisSlaveRole})
                   => theNode.Role = arg
            /\ (op = "SetLinkStatus"
                    /\ arg \in {RedisLinkStateConnected, RedisLinkStateDisconnected})
                   => theNode.LinkState = arg

\* SetRole("king") on a node whose role was slave, with a link state, a
\* referent and fail flags set by earlier calls.
C11_Witness ==
    /\ nodeCall = [op |-> "SetRole", arg |-> "king"]
    /\ nodeBefore.Role = RedisSlaveRole
    /\ nodeBefore.LinkState = RedisLinkStateConnected
    /\ nodeBefore.MasterReferent = "A"
    /\ nodeBefore.FailStatus # <<>>
    /\ theNode.Role = ""


\* C13: GetRole returns the explicit Role when it is master or slave;
\* otherwise slave when MasterReferent is not empty, else master when the
\* node owns at least one slot, else "none". IsMasterWithSlot is true exactly
\* of a master (by GetRole) with slots, IsMasterWithNoSlot of a master
\* without, IsSlave of a slave, and no node satisfies two of the three.
C13_GetRoleInference ==
    LET n == theNode
        explicit == n.Role \in {RedisMasterRole, RedisSlaveRole}
        role == CASE explicit -> n.Role
                  [] ~explicit /\ n.MasterReferent # "" -> RedisSlaveRole
                  [] ~explicit /\ n.MasterReferent = "" /\ n.Slots # <<>> -> RedisMasterRole
                  [] OTHER -> "none"
    IN  /\ nodeCall.op = "GetRole" => nodeRes = role
        /\ nodeCall.op = "IsMasterWithSlot"
               => (nodeRes <=> (role = RedisMasterRole /\ n.Slots # <<>>))
        /\ nodeCall.op = "IsMasterWithNoSlot"
               => (nodeRes <=> (role = RedisMasterRole /\ n.Slots = <<>>))
        /\ nodeCall.op = "IsSlave" => (nodeRes <=> (role = RedisSlaveRole))
        /\ \A f, g \in FindNodeFuncs :
               (FindNodeFunc(f, n) /\ FindNodeFunc(g, n)) => f = g

\* GetRole on a node with no explicit role, a referent and owned slots.
C13_Witness ==
    /\ nodeCall.op = "GetRole"
    /\ theNode.Role = ""
    /\ theNode.MasterReferent # ""
    /\ theNode.Slots # <<>>
    /\ nodeRes = RedisSlaveRole

\* C15: after SetFailureStatus(flags), FailStatus holds only values of the
\* enumeration fail, fail?, handshake, noaddr, noflags, holds each of them at
\* most once even when the flag is repeated in flags, and HasStatus(f) is
\* true exactly of the recognized flags that occur in flags.
C15_FailStatusDeduplicated ==
    nodeCall.op = "SetFailureStatus" =>
        LET status == theNode.FailStatus
            given == Split(nodeCall.arg, ",")
        IN  /\ \A i \in 1..Len(status) : status[i] \in FailFlags
            /\ \A i, j \in 1..Len(status) : status[i] = status[j] => i = j
            /\ \A f \in StatusArgs \cup {"king", "myself"} :
                   HasStatus(theNode, f)
                       <=> (f \in FailFlags /\ \E i \in 1..Len(given) : given[i] = f)
----------------------------------------------------------------------------
(* Slot tokens                                                             *)

\* The highest slot.
HashMaxSlots == 16383

\* A slot number in text: decimal digits, at most HashMaxSlots.
DecodeSlot(s) ==
    IF s = "" \/ ~AllDigits(s) \/ Len(s) > 5 THEN [err |-> "syntax", slot |-> 0]
    ELSE IF DigitsValue(s, 0) > HashMaxSlots THEN [err |-> "range", slot |-> 0]
    ELSE [err |-> nil, slot |-> DigitsValue(s, 0)]

\* The slots min..max, ascending.
BuildSlotSlice(min, max) == [i \in 1..(max - min + 1) |-> min + i - 1]

SlotRange(err, slots, importing, migrating) ==
    [err |-> err, slots |-> slots, importing |-> importing, migrating |-> migrating]

SlotRangeError == SlotRange("syntax", <<>>, <<>>, <<>>)

\* DecodeSlotRange, by the token grammar: "N" is one owned slot, "N-M" the
\* owned slots N..M, "[N->-id]" slot N migrating to node id, "[N-<-id]" slot N
\* importing from node id; any other token is an error. A marker token
\* carries no owned slot. importing and migrating are <<>> (nil) or one marker.
DecodeSlotRange(str) ==
    IF Len(str) >= 2 /\ CharAt(str, 1) = "[" /\ CharAt(str, Len(str)) = "]"
    THEN LET inner == SubSeq(str, 2, Len(str) - 1)
             mig == IndexFrom(inner, "->-", 1)
             imp == IndexFrom(inner, "-<-", 1)
             at == IF mig # 0 THEN mig ELSE imp
             slot == DecodeSlot(SubSeq(inner, 1, at - 1))
             id == SubSeq(inner, at + 3, Len(inner))
         IN  IF at = 0 \/ slot.err # nil THEN SlotRangeError
             ELSE IF mig # 0
             THEN SlotRange(nil, <<>>, <<>>, <<[SlotID |-> slot.slot, ToNodeID |-> id]>>)
             ELSE SlotRange(nil, <<>>, <<[SlotID |-> slot.slot, FromNodeID |-> id]>>, <<>>)
    ELSE LET val == Split(str, "-")
             min == DecodeSlot(val[1])
             max == IF Len(val) > 1 THEN DecodeSlot(val[2]) ELSE min
         IN  IF Len(val) > 2 \/ min.err # nil \/ max.err # nil THEN SlotRangeError
             ELSE SlotRange(nil, BuildSlotSlice(min.slot, max.slot), <<>>, <<>>)

----------------------------------------------------------------------------
(* DecodeNodeInfos                                                         *)

RECURSIVE LastIndexFrom(_, _, _)
LastIndexFrom(s, c, i) ==
    IF i < 1 THEN 0 ELSE IF CharAt(s, i) = c THEN i ELSE LastIndexFrom(s, c, i - 1)

AddrError == [host |-> "", port |-> "", err |-> "address"]

\* net.SplitHostPort: the port follows the last colon; a host in brackets
\* ends at the first "]", which the last colon must follow; an unbracketed
\* host holds no colon; no other bracket is allowed.
SplitHostPort(hostport) ==
    LET i == LastIndexFrom(hostport, ":", Len(hostport))
        bracketed == CharAt(hostport, 1) = "["
        end == IndexFrom(hostport, "]", 1)
        host == IF bracketed THEN SubSeq(hostport, 2, end - 1) ELSE SubSeq(hostport, 1, i - 1)
        afterJ == IF bracketed THEN SubSeq(hostport, 2, Len(hostport)) ELSE hostport
        afterK == IF bracketed THEN SubSeq(hostport, end + 1, Len(hostport)) ELSE hostport
    IN  IF i = 0 THEN AddrError
        ELSE IF bracketed /\ (end = 0 \/ end + 1 # i) THEN AddrError
        ELSE IF ~bracketed /\ Contains(host, ":") THEN AddrError
        ELSE IF Contains(afterJ, "[") \/ Contains(afterK, "]") THEN AddrError
        ELSE [host |-> host, port |-> SubSeq(hostport, i + 1, Len(hostport)), err |-> nil]

\* A faulty variant: the ip and the port are assigned whether or not the
\* split failed.
DecodeNodeAddrAssignsAnyway(node, value) ==
    LET ipPort == Split(value, "@")
        hp == SplitHostPort(ipPort[1])
    IN  [node EXCEPT !.IP = hp.host, !.Port = hp.port]

\* The address field: the part before the first "@", split into ip and port;
\* the node keeps the address it has when the split fails.
DecodeNodeAddr(node, value) ==
    LET ipPort == Split(value, "@")
        hp == SplitHostPort(ipPort[1])
    IN  IF hp.err = nil THEN [node EXCEPT !.IP = hp.host, !.Port = hp.port] ELSE node

\* A counter field: set when it parses, left alone when it does not.
DecodeNodeInt(old, value) ==
    LET parsed == ParseInt(value) IN IF parsed.err = nil THEN parsed.val ELSE old

\* A faulty variant of the turn below: the two marker maps are mixed up.
DecodeNodeSlotSwapsMarkers(node, slot) ==
    LET r == DecodeSlotRange(slot)
    IN  IF r.err # nil THEN node
        ELSE [node EXCEPT
                !.Slots = @ \o r.slots,
                !.ImportingSlots = IF r.migrating # <<>>
                                   THEN MapPut(@, r.migrating[1].SlotID, r.migrating[1].ToNodeID)
                                   ELSE @,
                !.MigratingSlots = IF r.importing # <<>>
                                   THEN MapPut(@, r.importing[1].SlotID, r.importing[1].FromNodeID)
                                   ELSE @]

\* One turn of the loop over values[8:]: a token that decodes adds its slots
\* and its markers to the node, any other is dropped.
DecodeNodeSlot(node, slot) ==
    LET r == DecodeSlotRange(slot)
    IN  IF r.err # nil THEN node
        ELSE [node EXCEPT
                !.Slots = @ \o r.slots,
                !.ImportingSlots = IF r.importing # <<>>
                                   THEN MapPut(@, r.importing[1].SlotID, r.importing[1].FromNodeID)
                                   ELSE @,
                !.MigratingSlots = IF r.migrating # <<>>
                                   THEN MapPut(@, r.migrating[1].SlotID, r.migrating[1].ToNodeID)
                                   ELSE @]

\* A faulty variant of the loop below: the first token that does not decode
\* ends the loop.
RECURSIVE DecodeNodeSlotsStopsAtError(_, _, _)
DecodeNodeSlotsStopsAtError(node, values, i) ==
    IF i > Len(values) THEN node
    ELSE IF DecodeSlotRange(values[i]).err # nil THEN node
    ELSE DecodeNodeSlotsStopsAtError(DecodeNodeSlot(node, values[i]), values, i + 1)

\* The loop over values[8:].
RECURSIVE DecodeNodeSlots(_, _, _)
DecodeNodeSlots(node, values, i) ==
    IF i > Len(values) THEN node
    ELSE DecodeNodeSlots(DecodeNodeSlot(node, values[i]), values, i + 1)

\* The else branch of the loop over the lines: the node of a line that has
\* at least 8 values.
DecodeNodeLine(values) ==
    LET n0 == [NewDefaultNode EXCEPT !.ID = values[1]]
        n1 == DecodeNodeAddr(n0, values[2])
        n2 == SetRole(n1, values[3])
        n3 == SetFailureStatus(n2, values[3])
        n4 == SetReferentMaster(n3, values[4])
        n5 == [n4 EXCEPT !.PingSent = DecodeNodeInt(@, values[5]),
                         !.PongRecv = DecodeNodeInt(@, values[6]),
                         !.ConfigEpoch = DecodeNodeInt(@, values[7])]
        n6 == SetLinkStatus(n5, values[8])
    IN  DecodeNodeSlots(n6, values, 9)

\* A faulty variant of the loop below: break in place of continue.
RECURSIVE DecodeNodeLinesUntilShort(_, _, _)
DecodeNodeLinesUntilShort(lines, i, acc) ==
    IF i > Len(lines) THEN acc
    ELSE LET values == Split(lines[i], " ")
         IN  IF Len(values) < 8 THEN acc
             ELSE DecodeNodeLinesUntilShort(lines, i + 1, Append(acc, DecodeNodeLine(values)))

\* The loop over the lines: a line of fewer than 8 values is skipped.
RECURSIVE DecodeNodeLines(_, _, _)
DecodeNodeLines(lines, i, acc) ==
    IF i > Len(lines) THEN acc
    ELSE LET values == Split(lines[i], " ")
         IN  IF Len(values) < 8 THEN DecodeNodeLines(lines, i + 1, acc)
             ELSE DecodeNodeLines(lines, i + 1, Append(acc, DecodeNodeLine(values)))

DecodeNodeInfos(input) == DecodeNodeLines(Split(input, "\n"), 1, <<>>)

\* The most lines the CLUSTER NODES text has.
MaxLines == 3

\* Lines as CLUSTER NODES prints them, and lines that are damaged.
NodeLines ==
    {"a 1.2.3.4:6379@16379 master - 0 0 1 connected 0-2",
     "b 1.2.3.5:6379@16379 myself,slave a 0 5 2 connected",
     "c 1.2.3.6:6379 master - 0 0 3 connected 3 [5->-a] 7-8",
     "a host slave,fail? b x 7 y disconnected [9-<-b] 4",
     "d 1.2.3.7:6380@1 master - 0 0 4 connected 1 x-y 2 [3->b] 6",
     "f [::1]:6379 slave,fail,fail b 1 2 3 blabla [5->-a] [5-<-c] [5->-b]  ",
     "e 1.2.3.8:6379 master - 0 0 5",
     ""}

RECURSIVE JoinLines(_)
JoinLines(lines) ==
    IF Len(lines) = 0 THEN ""
    ELSE IF Len(lines) = 1 THEN lines[1]
    ELSE lines[1] \o "\n" \o JoinLines(Tail(lines))

NodeInputs == {JoinLines(ls) : ls \in UNION {[1..k -> NodeLines] : k \in 0..MaxLines}}

InitDecode ==
    /\ rawNodes \in NodeInputs
    /\ decodePc = "input"
    /\ decoded = <<>>
    /\ nodes = <<>>
    /\ NodesIdle
    /\ InfoIdle
    /\ CfgIdle
    /\ TheNodeIdle

CallDecodeNodeInfos ==
    /\ decodePc = "input"
    /\ decoded' = DecodeNodeInfos(rawNodes)
    /\ decodePc' = "decoded"
    /\ UNCHANGED rawNodes
    /\ UNCHANGED <<nodesVars, infoVars, cfgVars, theNodeVars>>

NextDecode == CallDecodeNodeInfos

SpecDecode == InitDecode /\ [][NextDecode]_vars

----------------------------------------------------------------------------
(* Properties of DecodeNodeInfos                                           *)

\* The space-separated fields of a line: one more than its spaces.
FieldCount(line) == 1 + Cardinality({i \in 1..Len(line) : CharAt(line, i) = " "})

FirstField(line) ==
    IF Contains(line, " ") THEN SubSeq(line, 1, IndexFrom(line, " ", 1) - 1) ELSE line

\* The lines of the text that have at least 8 fields, in text order.
LongLines(text) == SelectSeq(Split(text, "\n"), LAMBDA l : FieldCount(l) >= 8)

\* The slot tokens of a line: its fields after the 8th.
SlotTokens(line) == LET values == Split(line, " ") IN SubSeq(values, 9, Len(values))

IsSlotText(s) == s # "" /\ Len(s) <= 5 /\ AllDigits(s) /\ DigitsValue(s, 0) <= HashMaxSlots

\* The marker a token "[N<arrow>id]" states, <<>> when the token is none.
MarkerOf(token, arrow) ==
    LET inner == SubSeq(token, 2, Len(token) - 1)
        at == IndexFrom(inner, arrow, 1)
    IN  IF /\ Len(token) >= 2
           /\ CharAt(token, 1) = "["
           /\ CharAt(token, Len(token)) = "]"
           /\ at # 0
           /\ IsSlotText(SubSeq(inner, 1, at - 1))
        THEN <<[slot |-> DigitsValue(SubSeq(inner, 1, at - 1), 0),
                id |-> SubSeq(inner, at + Len(arrow), Len(inner))]>>
        ELSE <<>>

\* The owned slots a plain token "N" or "N-M" states, <<>> for any other token.
PlainSlotsOf(token) ==
    LET parts == Split(token, "-")
    IN  IF token = "" \/ CharAt(token, 1) = "[" THEN <<>>
        ELSE IF Len(parts) = 1 /\ IsSlotText(parts[1])
        THEN <<DigitsValue(parts[1], 0)>>
        ELSE IF Len(parts) = 2 /\ IsSlotText(parts[1]) /\ IsSlotText(parts[2])
        THEN [i \in 1..(DigitsValue(parts[2], 0) - DigitsValue(parts[1], 0) + 1) |->
                DigitsValue(parts[1], 0) + i - 1]
        ELSE <<>>

RECURSIVE PlainSlotsOfAll(_)
PlainSlotsOfAll(tokens) ==
    IF tokens = <<>> THEN <<>> ELSE PlainSlotsOf(Head(tokens)) \o PlainSlotsOfAll(Tail(tokens))

\* The map the markers of the tokens add up to: each marker's slot bound to
\* the id of the last marker naming that slot.
MarkersMatch(map, tokens, arrow) ==
    /\ DOMAIN map = {MarkerOf(tokens[j], arrow)[1].slot :
                        j \in {j \in 1..Len(tokens) : MarkerOf(tokens[j], arrow) # <<>>}}
    /\ \A j \in 1..Len(tokens) :
        LET mk == MarkerOf(tokens[j], arrow)
        IN  (/\ mk # <<>>
             /\ \A l \in (j + 1)..Len(tokens) :
                    MarkerOf(tokens[l], arrow) = <<>> \/ MarkerOf(tokens[l], arrow)[1].slot # mk[1].slot)
                => map[mk[1].slot] = mk[1].id

\* C9: a token marking slot N as migrating to node X adds N -> X to the
\* node's MigratingSlots and nothing to its Slots, an importing token adds
\* N -> X to ImportingSlots only, plain tokens add to Slots only, and all
\* tokens of a line accumulate onto the node of that line.
C9_MarkersKeptApartFromSlots ==
    decodePc = "decoded" =>
        LET long == LongLines(rawNodes)
        IN  /\ Len(decoded) = Len(long)
            /\ \A k \in 1..Len(decoded) :
                LET tokens == SlotTokens(long[k])
                IN  /\ MarkersMatch(decoded[k].MigratingSlots, tokens, "->-")
                    /\ MarkersMatch(decoded[k].ImportingSlots, tokens, "-<-")
                    /\ decoded[k].Slots = PlainSlotsOfAll(tokens)

\* C9's case: a decoded node owns slots from plain tokens and carries a
\* migrating marker, from a token between them, for a slot it does not own.
C9_Witness ==
    /\ decodePc = "decoded"
    /\ \E k \in 1..Len(decoded) : \E slot \in DOMAIN decoded[k].MigratingSlots :
        /\ Len(decoded[k].Slots) > 1
        /\ \A i \in 1..Len(decoded[k].Slots) : decoded[k].Slots[i] # slot
        /\ slot \notin DOMAIN decoded[k].ImportingSlots

\* C10: DecodeNodeInfos yields exactly one node per line that has at least 8
\* space-separated fields, in line order, and none for a shorter line; a
\* short line anywhere in the text does not stop the lines after it from
\* being decoded.
C10_OneNodePerLongLine ==
    decodePc = "decoded" =>
        LET long == LongLines(rawNodes)
        IN  /\ Len(decoded) = Len(long)
            /\ \A k \in 1..Len(decoded) :
                /\ decoded[k].ID = FirstField(long[k])
                /\ decoded[k] = DecodeNodeLine(Split(long[k], " "))

\* C10's case: a short, non-empty line stands between two lines that were
\* both decoded.
C10_Witness ==
    /\ decodePc = "decoded"
    /\ LET lines == Split(rawNodes, "\n")
       IN  /\ Len(lines) = 3
           /\ FieldCount(lines[1]) >= 8
           /\ lines[2] # ""
           /\ FieldCount(lines[2]) < 8
           /\ FieldCount(lines[3]) >= 8
           /\ Len(decoded) = 2
           /\ decoded[1].ID = FirstField(lines[1])
           /\ decoded[2].ID = FirstField(lines[3])
           /\ decoded[1].ID # decoded[2].ID


\* The address field of a line does not split into host and port.
AddressFails(line) == SplitHostPort(Split(Split(line, " ")[2], "@")[1]).err # nil

\* The node carries what the fields of the line other than the address say:
\* id, role, fail flags, referent, counters, link state, slots and markers.
PopulatedFrom(node, line) ==
    LET values == Split(line, " ")
        roles == RecognizedIn(values[3], {RedisMasterRole, RedisSlaveRole})
        tokens == SlotTokens(line)
    IN  /\ node.ID = values[1]
        /\ node.Role = IF roles = <<>> THEN "" ELSE roles[Len(roles)]
        /\ node.FailStatus = RecognizedIn(values[3], FailFlags)
        /\ node.MasterReferent = IF values[4] = "-" THEN "" ELSE values[4]
        /\ node.PingSent = IF AllDigits(values[5]) THEN DigitsValue(values[5], 0) ELSE 0
        /\ node.PongRecv = IF AllDigits(values[6]) THEN DigitsValue(values[6], 0) ELSE 0
        /\ node.ConfigEpoch = IF AllDigits(values[7]) THEN DigitsValue(values[7], 0) ELSE 0
        /\ node.LinkState
             = IF values[8] \in {RedisLinkStateConnected, RedisLinkStateDisconnected}
               THEN values[8] ELSE ""
        /\ node.Slots = PlainSlotsOfAll(tokens)
        /\ MarkersMatch(node.MigratingSlots, tokens, "->-")
        /\ MarkersMatch(node.ImportingSlots, tokens, "-<-")

\* C14 as stated: when the address field of a line cannot be parsed as
\* host:port, the decoded node has an empty address, neither an ip nor a port
\* being set on it; the node is still emitted with the other fields of the
\* line, and the following lines are still decoded.
C14_BadAddressLeavesAddressEmpty ==
    decodePc = "decoded" =>
        LET long == LongLines(rawNodes)
        IN  /\ Len(decoded) = Len(long)
            /\ \A k \in 1..Len(decoded) :
                AddressFails(long[k]) =>
                    /\ decoded[k].IP = ""
                    /\ decoded[k].Port = ""
                    /\ PopulatedFrom(decoded[k], long[k])

\* C14 as amended: when the address field of a line cannot be parsed as
\* host:port, the decoded node keeps the address of a new node, an empty ip
\* and the default port 6379; the node is still emitted with the other
\* fields of the line, and the following lines are still decoded.
C14_BadAddressKeepsDefaultAddress ==
    decodePc = "decoded" =>
        LET long == LongLines(rawNodes)
        IN  /\ Len(decoded) = Len(long)
            /\ \A k \in 1..Len(decoded) :
                AddressFails(long[k]) =>
                    /\ decoded[k].IP = ""
                    /\ decoded[k].Port = DefaultRedisPort
                    /\ IPPort(decoded[k]) = ":6379"
                    /\ PopulatedFrom(decoded[k], long[k])

\* C14's case: a line whose address does not parse gave a node with a role,
\* a fail flag, a referent, a counter, a link state, a slot and a marker, and
\* the line after it gave a node with an address.
C14_Witness ==
    /\ decodePc = "decoded"
    /\ LET long == LongLines(rawNodes)
       IN  \E k \in 1..(Len(decoded) - 1) :
            /\ Len(long) = Len(decoded)
            /\ AddressFails(long[k])
            /\ decoded[k].IP = ""
            /\ decoded[k].Role = RedisSlaveRole
            /\ decoded[k].FailStatus = <<NodeStatusPFail>>
            /\ decoded[k].MasterReferent = "b"
            /\ decoded[k].PongRecv = 7
            /\ decoded[k].LinkState = RedisLinkStateDisconnected
            /\ decoded[k].Slots = <<4>>
            /\ DOMAIN decoded[k].ImportingSlots = {9}
            /\ ~AddressFails(long[k + 1])
            /\ decoded[k + 1].IP # ""

\* A token that states neither owned slots nor a marker.
Malformed(token) ==
    /\ PlainSlotsOf(token) = <<>>
    /\ MarkerOf(token, "->-") = <<>>
    /\ MarkerOf(token, "-<-") = <<>>

\* C16: a malformed slot token is dropped without aborting its line. The
\* node of every line with at least 8 fields is appended, and its slots and
\* markers are those of the line's well-formed tokens, the ones before a
\* malformed token and the ones after it alike, in token order.
C16_MalformedTokenDropped ==
    decodePc = "decoded" =>
        LET long == LongLines(rawNodes)
        IN  /\ Len(decoded) = Len(long)
            /\ \A k \in 1..Len(decoded) :
                LET wellFormed == SelectSeq(SlotTokens(long[k]), LAMBDA t : ~Malformed(t))
                IN  /\ decoded[k].ID = FirstField(long[k])
                    /\ decoded[k].Slots = PlainSlotsOfAll(wellFormed)
                    /\ MarkersMatch(decoded[k].MigratingSlots, wellFormed, "->-")
                    /\ MarkersMatch(decoded[k].ImportingSlots, wellFormed, "-<-")

\* C16's case: a malformed token stands between two plain tokens of a line,
\* and the node of the line owns the slots of both.
C16_Witness ==
    /\ decodePc = "decoded"
    /\ LET long == LongLines(rawNodes)
       IN  \E k \in 1..Len(decoded) :
            /\ Len(long) = Len(decoded)
            /\ LET tokens == SlotTokens(long[k])
               IN  \E j \in 2..(Len(tokens) - 1) :
                    /\ Malformed(tokens[j])
                    /\ tokens[j] # ""
                    /\ PlainSlotsOf(tokens[j - 1]) # <<>>
                    /\ PlainSlotsOf(tokens[j + 1]) # <<>>
                    /\ \E a, b \in 1..Len(decoded[k].Slots) :
                        /\ a < b
                        /\ decoded[k].Slots[a] = PlainSlotsOf(tokens[j - 1])[1]
                        /\ decoded[k].Slots[b] = PlainSlotsOf(tokens[j + 1])[1]

\* C17: in the collection DecodeNodeInfos returns, no two nodes have the
\* same ID, whatever the text, also when two of its lines carry the same id.
C17_DecodedIdsUnique ==
    decodePc = "decoded" =>
        \A i, j \in 1..Len(decoded) : decoded[i].ID = decoded[j].ID => i = j
====
